---- MODULE Spec2Model ----
(***************************************************************************)
(* Model of wooden_structure.py: an unbalanced binary search tree          *)
(* (BinaryTree) of Node objects with a depth cached at creation, the       *)
(* recursive insert and delete, the four traversals and the membership     *)
(* test.                                                                   *)
(*                                                                         *)
(* Node objects live in a heap, a function from object identities          *)
(* (positive integers) to records [value, depth, left, right]; a child     *)
(* link is an identity or None.  An object that loses its last reference   *)
(* leaves the heap (CPython reference counting).                           *)
(***************************************************************************)
EXTENDS Integers, Sequences, FiniteSets, TLC

\* ---- bounds of the model ------------------------------------------------
MaxVal == 4          \* values are 1..MaxVal
MaxInitLen == 2      \* longest initial sequence handed to the constructor
MaxOps == 3          \* insert/delete calls after construction

Values == 1..MaxVal

\* the absent child / absent root / absent argument
None == 0

\* class TraverseType(Enum)
PRE_ORDER == "PRE_ORDER"
IN_ORDER == "IN_ORDER"
POST_ORDER == "POST_ORDER"
LEVEL_ORDER == "LEVEL_ORDER"
TraverseType == {PRE_ORDER, IN_ORDER, POST_ORDER, LEVEL_ORDER}

VARIABLES
  root,           \* BinaryTree.root: identity of the root Node, or None
  nodes,          \* the heap of live Node objects
  traverse_type,  \* BinaryTree.traverse_type
  nextId,         \* identity the next created Node gets
  error,          \* "none", or the exception that ended the constructor
  iterable,       \* the constructor's argument: [isNone, items]
  \* history variables (not program state)
  model,          \* abstract set: insert adds, delete removes
  everInserted,   \* every value ever passed to insert
  numAdded,       \* insert calls whose value was not in the abstract set
  numRemoved,     \* delete calls whose value was in the abstract set
  born,           \* identity -> edges between root and the node when created
  last,           \* the last call: [op, value]
  prev,           \* root and heap before the last call
  nops            \* calls after construction

vars == <<root, nodes, traverse_type, nextId, error, iterable, model, everInserted,
          numAdded, numRemoved, born, last, prev, nops>>

\* ---- Node ---------------------------------------------------------------
\* Node.__init__(value, depth, left=None, right=None)
Node(value, depth) ==
  [value |-> value, depth |-> depth, left |-> None, right |-> None]

\* the heap h without the object n
Free(h, n) == [m \in (DOMAIN h) \ {n} |-> h[m]]

\* ---- insert -------------------------------------------------------------
\* mutant: the recursion passes depth on unchanged when it goes right
RECURSIVE _insert_flat_depth(_, _, _, _, _)
_insert_flat_depth(h, fresh, node, value, depth) ==
  IF node = None
    THEN [h |-> (fresh :> Node(value, depth)) @@ h, ret |-> fresh]
  ELSE IF value = h[node].value
    THEN [h |-> h, ret |-> node]
  ELSE IF h[node].value > value
    THEN LET r == _insert_flat_depth(h, fresh, h[node].left, value, depth + 1)
         IN [h |-> [r.h EXCEPT ![node].left = r.ret], ret |-> node]
  ELSE LET r == _insert_flat_depth(h, fresh, h[node].right, value, depth)
       IN [h |-> [r.h EXCEPT ![node].right = r.ret], ret |-> node]

\* mutant: the comparison is the wrong way round
RECURSIVE _insert_swapped(_, _, _, _, _)
_insert_swapped(h, fresh, node, value, depth) ==
  IF node = None
    THEN [h |-> (fresh :> Node(value, depth)) @@ h, ret |-> fresh]
  ELSE IF value = h[node].value
    THEN [h |-> h, ret |-> node]
  ELSE IF h[node].value < value
    THEN LET r == _insert_swapped(h, fresh, h[node].left, value, depth + 1)
         IN [h |-> [r.h EXCEPT ![node].left = r.ret], ret |-> node]
  ELSE LET r == _insert_swapped(h, fresh, h[node].right, value, depth + 1)
       IN [h |-> [r.h EXCEPT ![node].right = r.ret], ret |-> node]

\* mutant: an equal value replaces the node by a new one
RECURSIVE _insert_replace(_, _, _, _, _)
_insert_replace(h, fresh, node, value, depth) ==
  IF node = None
    THEN [h |-> (fresh :> Node(value, depth)) @@ h, ret |-> fresh]
  ELSE IF value = h[node].value
    THEN [h |-> (fresh :> Node(value, depth)) @@ Free(h, node), ret |-> fresh]
  ELSE IF h[node].value > value
    THEN LET r == _insert_replace(h, fresh, h[node].left, value, depth + 1)
         IN [h |-> [r.h EXCEPT ![node].left = r.ret], ret |-> node]
  ELSE LET r == _insert_replace(h, fresh, h[node].right, value, depth + 1)
       IN [h |-> [r.h EXCEPT ![node].right = r.ret], ret |-> node]

\* mutant: the result of the left descent is stored in the right link
RECURSIVE _insert_wrong_link(_, _, _, _, _)
_insert_wrong_link(h, fresh, node, value, depth) ==
  IF node = None
    THEN [h |-> (fresh :> Node(value, depth)) @@ h, ret |-> fresh]
  ELSE IF value = h[node].value
    THEN [h |-> h, ret |-> node]
  ELSE IF h[node].value > value
    THEN LET r == _insert_wrong_link(h, fresh, h[node].left, value, depth + 1)
         IN [h |-> [r.h EXCEPT ![node].right = r.ret], ret |-> node]
  ELSE LET r == _insert_wrong_link(h, fresh, h[node].right, value, depth + 1)
       IN [h |-> [r.h EXCEPT ![node].right = r.ret], ret |-> node]

\* insert._insert(node, value, depth): the heap after the call and the
\* returned node.  `value == node` and `value < node` reach Node.__eq__ and
\* Node.__gt__ (reflected), which compare node.value with value.
RECURSIVE _insert(_, _, _, _, _)
_insert(h, fresh, node, value, depth) ==
  IF node = None
    THEN [h |-> (fresh :> Node(value, depth)) @@ h, ret |-> fresh]
  ELSE IF value = h[node].value
    THEN [h |-> h, ret |-> node]
  ELSE IF h[node].value > value
    THEN LET r == _insert(h, fresh, h[node].left, value, depth + 1)
         IN [h |-> [r.h EXCEPT ![node].left = r.ret], ret |-> node]
  ELSE LET r == _insert(h, fresh, h[node].right, value, depth + 1)
       IN [h |-> [r.h EXCEPT ![node].right = r.ret], ret |-> node]

\* ---- delete -------------------------------------------------------------
\* mutant: the descent stops at the first node instead of going left
_search_min_shallow(h, node) == h[node].value

\* delete._search_min(node): the value of the leftmost node under node
RECURSIVE _search_min(_, _)
_search_min(h, node) ==
  IF h[node].left = None
    THEN h[node].value
    ELSE _search_min(h, h[node].left)

\* mutant: the leftmost node is unlinked together with its right subtree
RECURSIVE _delete_min_drop_right(_, _)
_delete_min_drop_right(h, node) ==
  IF h[node].left = None
    THEN [h |-> Free(h, node), ret |-> None]
    ELSE LET r == _delete_min_drop_right(h, h[node].left)
         IN [h |-> [r.h EXCEPT ![node].left = r.ret], ret |-> node]

\* delete._delete_min(node): unlinks the leftmost node under node, putting
\* its right child in its place; the unlinked node loses its last reference
RECURSIVE _delete_min(_, _)
_delete_min(h, node) ==
  IF h[node].left = None
    THEN [h |-> Free(h, node), ret |-> h[node].right]
    ELSE LET r == _delete_min(h, h[node].left)
         IN [h |-> [r.h EXCEPT ![node].left = r.ret], ret |-> node]

\* mutant: a matched node without a left child is returned as it is
RECURSIVE _delete_keep(_, _, _)
_delete_keep(h, node, value) ==
  IF node # None
    THEN IF value = h[node].value
           THEN IF h[node].left = None
                  THEN [h |-> h, ret |-> node]
                ELSE IF h[node].right = None
                  THEN [h |-> Free(h, node), ret |-> h[node].left]
                ELSE LET h1 == [h EXCEPT ![node].value = _search_min(h, h[node].right)]
                         r == _delete_min(h1, h1[node].right)
                     IN [h |-> [r.h EXCEPT ![node].right = r.ret], ret |-> node]
         ELSE IF value < h[node].value
           THEN LET r == _delete_keep(h, h[node].left, value)
                IN [h |-> [r.h EXCEPT ![node].left = r.ret], ret |-> node]
         ELSE LET r == _delete_keep(h, h[node].right, value)
              IN [h |-> [r.h EXCEPT ![node].right = r.ret], ret |-> node]
    ELSE [h |-> h, ret |-> node]

\* mutant: `return node` is reached only by the matching branch, the two
\* descending branches fall off the end and return None
RECURSIVE _delete_lost_return(_, _, _)
_delete_lost_return(h, node, value) ==
  IF node # None
    THEN IF value = h[node].value
           THEN IF h[node].left = None
                  THEN [h |-> Free(h, node), ret |-> h[node].right]
                ELSE IF h[node].right = None
                  THEN [h |-> Free(h, node), ret |-> h[node].left]
                ELSE LET h1 == [h EXCEPT ![node].value = _search_min(h, h[node].right)]
                         r == _delete_min(h1, h1[node].right)
                     IN [h |-> [r.h EXCEPT ![node].right = r.ret], ret |-> node]
         ELSE IF value < h[node].value
           THEN LET r == _delete_lost_return(h, h[node].left, value)
                IN [h |-> [r.h EXCEPT ![node].left = r.ret], ret |-> None]
         ELSE LET r == _delete_lost_return(h, h[node].right, value)
              IN [h |-> [r.h EXCEPT ![node].right = r.ret], ret |-> None]
    ELSE [h |-> h, ret |-> node]

\* mutant: the two-child case copies the minimum up and leaves it in place
RECURSIVE _delete_no_splice(_, _, _)
_delete_no_splice(h, node, value) ==
  IF node # None
    THEN IF value = h[node].value
           THEN IF h[node].left = None
                  THEN [h |-> Free(h, node), ret |-> h[node].right]
                ELSE IF h[node].right = None
                  THEN [h |-> Free(h, node), ret |-> h[node].left]
                ELSE [h |-> [h EXCEPT ![node].value = _search_min(h, h[node].right)],
                      ret |-> node]
         ELSE IF value < h[node].value
           THEN LET r == _delete_no_splice(h, h[node].left, value)
                IN [h |-> [r.h EXCEPT ![node].left = r.ret], ret |-> node]
         ELSE LET r == _delete_no_splice(h, h[node].right, value)
              IN [h |-> [r.h EXCEPT ![node].right = r.ret], ret |-> node]
    ELSE [h |-> h, ret |-> node]

\* mutant: the two-child case unlinks the minimum without copying its value
RECURSIVE _delete_value_kept(_, _, _)
_delete_value_kept(h, node, value) ==
  IF node # None
    THEN IF value = h[node].value
           THEN IF h[node].left = None
                  THEN [h |-> Free(h, node), ret |-> h[node].right]
                ELSE IF h[node].right = None
                  THEN [h |-> Free(h, node), ret |-> h[node].left]
                ELSE LET r == _delete_min(h, h[node].right)
                     IN [h |-> [r.h EXCEPT ![node].right = r.ret], ret |-> node]
         ELSE IF value < h[node].value
           THEN LET r == _delete_value_kept(h, h[node].left, value)
                IN [h |-> [r.h EXCEPT ![node].left = r.ret], ret |-> node]
         ELSE LET r == _delete_value_kept(h, h[node].right, value)
              IN [h |-> [r.h EXCEPT ![node].right = r.ret], ret |-> node]
    ELSE [h |-> h, ret |-> node]

\* mutant: a matched node without a right child is replaced by that absent
\* right child
RECURSIVE _delete_wrong_child(_, _, _)
_delete_wrong_child(h, node, value) ==
  IF node # None
    THEN IF value = h[node].value
           THEN IF h[node].left = None
                  THEN [h |-> Free(h, node), ret |-> h[node].right]
                ELSE IF h[node].right = None
                  THEN [h |-> Free(h, node), ret |-> h[node].right]
                ELSE LET h1 == [h EXCEPT ![node].value = _search_min(h, h[node].right)]
                         r == _delete_min(h1, h1[node].right)
                     IN [h |-> [r.h EXCEPT ![node].right = r.ret], ret |-> node]
         ELSE IF value < h[node].value
           THEN LET r == _delete_wrong_child(h, h[node].left, value)
                IN [h |-> [r.h EXCEPT ![node].left = r.ret], ret |-> node]
         ELSE LET r == _delete_wrong_child(h, h[node].right, value)
              IN [h |-> [r.h EXCEPT ![node].right = r.ret], ret |-> node]
    ELSE [h |-> h, ret |-> node]

\* delete._delete(node, value): the heap after the call and the returned
\* node.  A Node defines neither __bool__ nor __len__, so `if node:` is
\* `node is not None`.
RECURSIVE _delete(_, _, _)
_delete(h, node, value) ==
  IF node # None
    THEN IF value = h[node].value
           THEN IF h[node].left = None
                  THEN [h |-> Free(h, node), ret |-> h[node].right]
                ELSE IF h[node].right = None
                  THEN [h |-> Free(h, node), ret |-> h[node].left]
                ELSE LET h1 == [h EXCEPT ![node].value = _search_min(h, h[node].right)]
                         r == _delete_min(h1, h1[node].right)
                     IN [h |-> [r.h EXCEPT ![node].right = r.ret], ret |-> node]
         ELSE IF value < h[node].value
           THEN LET r == _delete(h, h[node].left, value)
                IN [h |-> [r.h EXCEPT ![node].left = r.ret], ret |-> node]
         ELSE LET r == _delete(h, h[node].right, value)
              IN [h |-> [r.h EXCEPT ![node].right = r.ret], ret |-> node]
    ELSE [h |-> h, ret |-> node]

\* ---- traversal ----------------------------------------------------------
\* __iter__._pre_order(node): the nodes in the order they are yielded
RECURSIVE _pre_order(_, _)
_pre_order(h, node) ==
  IF node # None
    THEN <<node>> \o _pre_order(h, h[node].left) \o _pre_order(h, h[node].right)
    ELSE <<>>

\* __iter__._in_order(node)
RECURSIVE _in_order(_, _)
_in_order(h, node) ==
  IF node # None
    THEN _in_order(h, h[node].left) \o <<node>> \o _in_order(h, h[node].right)
    ELSE <<>>

\* mutant: the node is yielded before its right subtree
RECURSIVE _post_order_early(_, _)
_post_order_early(h, node) ==
  IF node # None
    THEN _post_order_early(h, h[node].left) \o <<node>>
           \o _post_order_early(h, h[node].right)
    ELSE <<>>

\* __iter__._post_order(node)
RECURSIVE _post_order(_, _)
_post_order(h, node) ==
  IF node # None
    THEN _post_order(h, h[node].left) \o _post_order(h, h[node].right) \o <<node>>
    ELSE <<>>

\* the dict of _level_order is a sequence of <<key, list>> pairs in the
\* order the keys were first set (a dict keeps insertion order)
HasKey(result, k) == \E i \in 1..Len(result) : result[i][1] = k
KeyIndex(result, k) == CHOOSE i \in 1..Len(result) : result[i][1] = k

\* mutant: a depth met again starts its list afresh
RECURSIVE _level_order_rec_reset(_, _, _)
_level_order_rec_reset(h, node, result) ==
  IF node # None
    THEN LET d == h[node].depth
             r0 == IF ~HasKey(result, d)
                     THEN Append(result, <<d, <<node>>>>)
                     ELSE [result EXCEPT ![KeyIndex(result, d)] = <<d, <<node>>>>]
             r1 == _level_order_rec_reset(h, h[node].left, r0)
         IN _level_order_rec_reset(h, h[node].right, r1)
    ELSE result

\* mutant: the walk goes right before it goes left
RECURSIVE _level_order_rec_right_first(_, _, _)
_level_order_rec_right_first(h, node, result) ==
  IF node # None
    THEN LET d == h[node].depth
             r0 == IF ~HasKey(result, d)
                     THEN Append(result, <<d, <<node>>>>)
                     ELSE [result EXCEPT ![KeyIndex(result, d)][2] = Append(@, node)]
             r1 == _level_order_rec_right_first(h, h[node].right, r0)
         IN _level_order_rec_right_first(h, h[node].left, r1)
    ELSE result

\* __iter__._level_order._(node, result): files node under its stored depth,
\* then walks left, then right
RECURSIVE _level_order_rec(_, _, _)
_level_order_rec(h, node, result) ==
  IF node # None
    THEN LET d == h[node].depth
             r0 == IF ~HasKey(result, d)
                     THEN Append(result, <<d, <<node>>>>)
                     ELSE [result EXCEPT ![KeyIndex(result, d)][2] = Append(@, node)]
             r1 == _level_order_rec(h, h[node].left, r0)
         IN _level_order_rec(h, h[node].right, r1)
    ELSE result

\* [node for r in result.values() for node in r]
RECURSIVE DictValuesFlat(_)
DictValuesFlat(result) ==
  IF result = <<>> THEN <<>>
  ELSE Head(result)[2] \o DictValuesFlat(Tail(result))

\* __iter__._level_order(node)
_level_order(h, node) == DictValuesFlat(_level_order_rec(h, node, <<>>))

\* BinaryTree.__iter__ on a tree with heap h, root r, traverse type tt
__iter__(h, r, tt) ==
  IF tt = PRE_ORDER THEN _pre_order(h, r)
  ELSE IF tt = IN_ORDER THEN _in_order(h, r)
  ELSE IF tt = POST_ORDER THEN _post_order(h, r)
  ELSE _level_order(h, r)

\* BinaryTree.__contains__(value): Node.__eq__ compares node.value with value
__contains__(h, r, tt, value) ==
  LET it == __iter__(h, r, tt)
  IN \E i \in 1..Len(it) : h[it[i]].value = value

\* ---- structure, measured on the heap ------------------------------------
\* edges on the path from node n down to node target, -1 when target is not
\* under n
RECURSIVE PathLen(_, _, _)
PathLen(h, n, target) ==
  IF n = None THEN -1
  ELSE IF n = target THEN 0
  ELSE LET l == PathLen(h, h[n].left, target)
       IN IF l >= 0 THEN l + 1
          ELSE LET r == PathLen(h, h[n].right, target)
               IN IF r >= 0 THEN r + 1 ELSE -1

\* the nodes a chain of left/right links leads to from the nodes of S
RECURSIVE Closure(_, _)
Closure(h, S) ==
  LET T == S \cup {h[n].left : n \in S} \cup {h[n].right : n \in S}
      U == (T \ {None}) \cap DOMAIN h
  IN IF U = S THEN S ELSE Closure(h, U)

Reachable(h, r) == IF r = None THEN {} ELSE Closure(h, {r})

\* the values held by the nodes under (and including) node n
SubtreeValues(h, n) == {h[m].value : m \in Reachable(h, n)}

\* ---- the tree with its history -------------------------------------------
\* BinaryTree.insert(value) on the state s
insert_(s, value) ==
  LET r == _insert(s.nodes, s.nextId, s.root, value, 0)
      created == s.nextId \in DOMAIN r.h
  IN [s EXCEPT
        !.root = r.ret,
        !.nodes = r.h,
        !.nextId = IF created THEN @ + 1 ELSE @,
        !.model = @ \cup {value},
        !.everInserted = @ \cup {value},
        !.numAdded = IF value \in s.model THEN @ ELSE @ + 1,
        !.born = IF created
                   THEN (s.nextId :> PathLen(r.h, r.ret, s.nextId)) @@ @
                   ELSE @,
        !.last = [op |-> "insert", value |-> value],
        !.prev = [root |-> s.root, nodes |-> s.nodes]]

\* BinaryTree.delete(value) on the state s
delete_(s, value) ==
  LET r == _delete(s.nodes, s.root, value)
  IN [s EXCEPT
        !.root = r.ret,
        !.nodes = r.h,
        !.model = @ \ {value},
        !.numRemoved = IF value \in s.model THEN @ + 1 ELSE @,
        !.born = [n \in (DOMAIN @) \cap (DOMAIN r.h) |-> @[n]],
        !.last = [op |-> "delete", value |-> value],
        !.prev = [root |-> s.root, nodes |-> s.nodes]]

\* mutant: the loop starts at the second element
RECURSIVE InsertAll_skip_first(_, _)
InsertAll_skip_first(s, items) ==
  IF items = <<>> THEN s
  ELSE LET rest == Tail(items)
       IN IF rest = <<>> THEN s
          ELSE InsertAll_skip_first(insert_(s, Head(rest)), rest)

\* for i in iterable: self.insert(i)
RECURSIVE InsertAll(_, _)
InsertAll(s, items) ==
  IF items = <<>> THEN s
  ELSE InsertAll(insert_(s, Head(items)), Tail(items))

\* mutant: an absent argument is taken as the empty sequence
__init__none_as_empty(arg, tt) ==
  LET s0 == [root |-> None, nodes |-> <<>>, traverse_type |-> tt, nextId |-> 1,
             error |-> "none", iterable |-> arg, model |-> {},
             everInserted |-> {}, numAdded |-> 0, numRemoved |-> 0,
             born |-> <<>>, last |-> [op |-> "new", value |-> None],
             prev |-> [root |-> None, nodes |-> <<>>], nops |-> 0]
  IN [InsertAll(s0, arg.items) EXCEPT
        !.last = [op |-> "new", value |-> None],
        !.prev = [root |-> None, nodes |-> <<>>]]

\* BinaryTree.__init__(iterable, traverse_type): root and traverse_type are
\* set, then the argument is iterated; iterating None raises TypeError
__init__(arg, tt) ==
  LET s0 == [root |-> None, nodes |-> <<>>, traverse_type |-> tt, nextId |-> 1,
             error |-> "none", iterable |-> arg, model |-> {},
             everInserted |-> {}, numAdded |-> 0, numRemoved |-> 0,
             born |-> <<>>, last |-> [op |-> "new", value |-> None],
             prev |-> [root |-> None, nodes |-> <<>>], nops |-> 0]
  IN IF arg.isNone
       THEN [s0 EXCEPT !.error = "TypeError"]
       ELSE [InsertAll(s0, arg.items) EXCEPT
               !.last = [op |-> "new", value |-> None],
               !.prev = [root |-> None, nodes |-> <<>>]]

\* the state as one record, and the state a record stands for
State ==
  [root |-> root, nodes |-> nodes, traverse_type |-> traverse_type,
   nextId |-> nextId, error |-> error, iterable |-> iterable, model |-> model,
   everInserted |-> everInserted, numAdded |-> numAdded,
   numRemoved |-> numRemoved, born |-> born, last |-> last, prev |-> prev,
   nops |-> nops]

Becomes(s) ==
  /\ root' = s.root
  /\ nodes' = s.nodes
  /\ traverse_type' = s.traverse_type
  /\ nextId' = s.nextId
  /\ error' = s.error
  /\ iterable' = s.iterable
  /\ model' = s.model
  /\ everInserted' = s.everInserted
  /\ numAdded' = s.numAdded
  /\ numRemoved' = s.numRemoved
  /\ born' = s.born
  /\ last' = s.last
  /\ prev' = s.prev
  /\ nops' = s.nops

\* the initial sequences the constructor is given
SeqsUpTo(n) == UNION {[1..k -> Values] : k \in 0..n}
Iterables ==
  {[isNone |-> TRUE, items |-> <<>>]}
    \cup {[isNone |-> FALSE, items |-> q] : q \in SeqsUpTo(MaxInitLen)}

Init ==
  \E arg \in Iterables, tt \in TraverseType :
    LET s == __init__(arg, tt)
    IN /\ root = s.root
       /\ nodes = s.nodes
       /\ traverse_type = s.traverse_type
       /\ nextId = s.nextId
       /\ error = s.error
       /\ iterable = s.iterable
       /\ model = s.model
       /\ everInserted = s.everInserted
       /\ numAdded = s.numAdded
       /\ numRemoved = s.numRemoved
       /\ born = s.born
       /\ last = s.last
       /\ prev = s.prev
       /\ nops = s.nops

\* a call of tree.insert(value)
insert(value) ==
  /\ error = "none"
  /\ nops < MaxOps
  /\ Becomes([insert_(State, value) EXCEPT !.nops = @ + 1])

\* a call of tree.delete(value)
delete(value) ==
  /\ error = "none"
  /\ nops < MaxOps
  /\ Becomes([delete_(State, value) EXCEPT !.nops = @ + 1])

Next ==
  \/ \E value \in Values : insert(value)
  \/ \E value \in Values : delete(value)

Spec == Init /\ [][Next]_vars

\* ---- properties ---------------------------------------------------------
\* the values held by the nodes of the heap h
TreeValues(h) == {h[n].value : n \in DOMAIN h}

\* the values of a sequence of nodes of the current heap
ValuesOf(it) == [i \in 1..Len(it) |-> nodes[it[i]].value]

\* the last call was delete(v) and the node holding v had both children
LastDeleteHitTwoChildren ==
  /\ last.op = "delete"
  /\ \E n \in DOMAIN prev.nodes :
       /\ prev.nodes[n].value = last.value
       /\ prev.nodes[n].left # None
       /\ prev.nodes[n].right # None

\* some node's stored depth differs from its present distance from the root
SomeDepthStale ==
  \E n \in DOMAIN nodes : nodes[n].depth # PathLen(nodes, root, n)

\* C1: in every reachable state, for every node N each value in N's left
\* subtree is strictly less than N.value and each value in N's right subtree
\* is strictly greater, and the in-order traversal yields strictly
\* ascending values.
BinarySearchTreeOrdering ==
  /\ \A n \in DOMAIN nodes :
       /\ \A x \in SubtreeValues(nodes, nodes[n].left) : x < nodes[n].value
       /\ \A x \in SubtreeValues(nodes, nodes[n].right) : x > nodes[n].value
  /\ LET vs == ValuesOf(_in_order(nodes, root))
     IN \A i \in 1..(Len(vs) - 1) : vs[i] < vs[i + 1]

\* a two-child deletion has just rewritten a tree that still has a node
\* with both children
BinarySearchTreeOrderingWitness ==
  /\ LastDeleteHitTwoChildren
  /\ \E n \in DOMAIN nodes : nodes[n].left # None /\ nodes[n].right # None

\* C2: under each of the four traverse orders, contains(v) is true right
\* after insert(v) and false right after delete(v).
ContainsFollowsLastCall ==
  \A tt \in TraverseType :
    /\ last.op = "insert" => __contains__(nodes, root, tt, last.value)
    /\ last.op = "delete" => ~__contains__(nodes, root, tt, last.value)

\* delete(v) has just removed a v that an earlier insert had put in the
\* tree, and other nodes remain
ContainsFollowsLastCallWitness ==
  /\ last.op = "delete"
  /\ last.value \in TreeValues(prev.nodes)
  /\ last.value \in everInserted
  /\ root # None

\* C3 (as stated): the node count equals the number of distinct values ever
\* inserted minus the number of delete calls that removed a present value.
NodeCountIsDistinctInsertedMinusRemoved ==
  Len(__iter__(nodes, root, traverse_type))
    = Cardinality(everInserted) - numRemoved

\* C3 (amended): the node count, under each traverse order, equals the
\* number of insert calls whose value was absent when they were made minus
\* the number of delete calls whose value was present.
NodeCountIsAddedMinusRemoved ==
  \A tt \in TraverseType :
    Len(__iter__(nodes, root, tt)) = numAdded - numRemoved

\* a value has been inserted again after its deletion
NodeCountIsAddedMinusRemovedWitness ==
  /\ numAdded > Cardinality(everInserted)
  /\ numRemoved > 0
  /\ last.op = "insert"
  /\ nodes # prev.nodes

\* C4: level-order traversal yields the nodes with non-decreasing stored
\* depths, and nodes of one stored depth in the order the left-first
\* pre-order descent meets them.
LevelOrderGroupsByIncreasingDepth ==
  LET lo == _level_order(nodes, root)
      pre == _pre_order(nodes, root)
      Pos(n) == CHOOSE i \in 1..Len(pre) : pre[i] = n
  IN \A i, j \in 1..Len(lo) :
       i < j =>
         /\ nodes[lo[i]].depth <= nodes[lo[j]].depth
         /\ nodes[lo[i]].depth = nodes[lo[j]].depth => Pos(lo[i]) < Pos(lo[j])

\* C5: the tree holds exactly the values of the abstract set; contains(x)
\* is true iff x is in the abstract set, under each traverse order; and
\* delete(v) removes v and no other value.
TreeRefinesSet ==
  /\ {nodes[n].value : n \in Reachable(nodes, root)} = model
  /\ \A tt \in TraverseType, x \in Values :
       __contains__(nodes, root, tt, x) <=> x \in model
  /\ last.op = "delete" =>
       TreeValues(nodes) = TreeValues(prev.nodes) \ {last.value}

\* a two-child deletion whose minimum node lay below the right child
TreeRefinesSetWitness ==
  /\ last.op = "delete"
  /\ \E n \in DOMAIN prev.nodes :
       /\ prev.nodes[n].value = last.value
       /\ prev.nodes[n].left # None
       /\ prev.nodes[n].right # None
       /\ prev.nodes[prev.nodes[n].right].left # None
  /\ Cardinality(model) >= 3

\* C6: insert(v) on a tree that holds v raises nothing and leaves the root
\* and every node (value, stored depth, links) as they were, so every
\* traversal is the same before and after.
InsertPresentChangesNothing ==
  (last.op = "insert" /\ last.value \in TreeValues(prev.nodes)) =>
    /\ error = "none"
    /\ root = prev.root
    /\ nodes = prev.nodes
    /\ \A tt \in TraverseType :
         __iter__(nodes, root, tt) = __iter__(prev.nodes, prev.root, tt)

\* a value held by a node other than the root has just been inserted again
InsertPresentChangesNothingWitness ==
  /\ last.op = "insert"
  /\ last.value \in TreeValues(prev.nodes)
  /\ prev.nodes[prev.root].value # last.value
  /\ Cardinality(DOMAIN prev.nodes) >= 3

\* C7: delete(v) on a tree that does not hold v, the empty tree included,
\* raises nothing and leaves the root and every node as they were.
DeleteAbsentChangesNothing ==
  (last.op = "delete" /\ last.value \notin TreeValues(prev.nodes)) =>
    /\ error = "none"
    /\ root = prev.root
    /\ nodes = prev.nodes
    /\ prev.root = None => root = None /\ nodes = <<>>

\* an absent value has just been deleted from a tree of several nodes
DeleteAbsentChangesNothingWitness ==
  /\ last.op = "delete"
  /\ last.value \notin TreeValues(prev.nodes)
  /\ Cardinality(DOMAIN prev.nodes) >= 2

\* C8: each of the four traversals yields every node reachable from the
\* root exactly once and nothing else, stale stored depths or not.
TraversalsYieldEachNodeOnce ==
  \A tt \in TraverseType :
    LET it == __iter__(nodes, root, tt)
    IN /\ Len(it) = Cardinality(Reachable(nodes, root))
       /\ {it[i] : i \in 1..Len(it)} = Reachable(nodes, root)
       /\ \A i, j \in 1..Len(it) : it[i] = it[j] => i = j
       /\ Reachable(nodes, root) = DOMAIN nodes

\* a tree of several nodes, two of them with the same stored depth, one
\* with a stale stored depth
TraversalsYieldEachNodeOnceWitness ==
  /\ SomeDepthStale
  /\ \E m, n \in DOMAIN nodes : m # n /\ nodes[m].depth = nodes[n].depth

\* C9: every node's stored depth is the number of edges between the root
\* and the node at the moment the node was created, and no call changes
\* the stored depth of a node that exists before and after it.
StoredDepthIsDepthAtCreation ==
  /\ \A n \in DOMAIN nodes : nodes[n].depth = born[n]
  /\ \A n \in (DOMAIN nodes) \cap (DOMAIN prev.nodes) :
       nodes[n].depth = prev.nodes[n].depth

\* a node has just been created below a node whose stored depth is stale
StoredDepthIsDepthAtCreationWitness ==
  /\ last.op = "insert"
  /\ (DOMAIN nodes) \ (DOMAIN prev.nodes) # {}
  /\ \E n \in DOMAIN prev.nodes : prev.nodes[n].depth # PathLen(prev.nodes, prev.root, n)
  /\ \E n \in DOMAIN nodes : nodes[n].depth >= 2

\* C10: on a non-empty tree pre-order yields the root first and post-order
\* yields it last; each of the two sequences is empty iff there is no root.
PreOrderFirstPostOrderLastIsRoot ==
  LET pre == _pre_order(nodes, root)
      post == _post_order(nodes, root)
  IN /\ root # None => pre # <<>> /\ Head(pre) = root
     /\ root # None => post # <<>> /\ post[Len(post)] = root
     /\ pre = <<>> <=> root = None
     /\ post = <<>> <=> root = None

\* a deletion has just put another node at the root, which has both children
PreOrderFirstPostOrderLastIsRootWitness ==
  /\ last.op = "delete"
  /\ root # None
  /\ root # prev.root
  /\ nodes[root].left # None
  /\ nodes[root].right # None

\* the elements of a sequence
Range(q) == {q[i] : i \in 1..Len(q)}

\* the elements of the set S of integers in ascending order
SortedSeq(S) ==
  CHOOSE q \in [1..Cardinality(S) -> S] :
    /\ Range(q) = S
    /\ \A i \in 1..(Cardinality(S) - 1) : q[i] < q[i + 1]

\* the in-order value sequence of the tree of the state record s
InOrderValues(s) ==
  LET it == _in_order(s.nodes, s.root)
  IN [i \in 1..Len(it) |-> s.nodes[it[i]].value]

\* C11: right after construction the first element of the initial sequence
\* is at the root, the in-order value sequence is the sorted sequence of the
\* distinct elements of the initial sequence, and every initial sequence
\* with the same set of elements gives the same in-order value sequence.
ConstructionGivesSortedDistinct ==
  (last.op = "new" /\ error = "none") =>
    /\ iterable.items # <<>> =>
         root # None /\ nodes[root].value = Head(iterable.items)
    /\ InOrderValues(State) = SortedSeq(Range(iterable.items))
    /\ \A q \in SeqsUpTo(MaxInitLen) :
         Range(q) = Range(iterable.items) =>
           InOrderValues(__init__([isNone |-> FALSE, items |-> q], traverse_type))
             = InOrderValues(State)

\* a tree just built from a descending sequence of two elements
ConstructionGivesSortedDistinctWitness ==
  /\ last.op = "new"
  /\ error = "none"
  /\ Len(iterable.items) >= 2
  /\ iterable.items[1] > iterable.items[2]

\* the node reached from n by left links only
RECURSIVE Leftmost(_, _)
Leftmost(h, n) == IF h[n].left = None THEN n ELSE Leftmost(h, h[n].left)

\* the node of the heap h that has n as a child
ParentOf(h, n) == CHOOSE p \in DOMAIN h : h[p].left = n \/ h[p].right = n

\* the node that held the value of the last call before the call
Matched == CHOOSE n \in DOMAIN prev.nodes : prev.nodes[n].value = last.value

\* C12: delete(v) on a node with both children keeps the node where it is,
\* with its stored depth and left subtree, gives it the least value of its
\* right subtree, and unlinks the leftmost node of the right subtree, whose
\* right child takes its place; no other node is removed or changed.
TwoChildDeletePromotesMinimum ==
  LastDeleteHitTwoChildren =>
    LET old == prev.nodes
        n == Matched
        r == old[n].right
        m == Leftmost(old, r)
        p == ParentOf(old, m)
    IN /\ root = prev.root
       /\ DOMAIN nodes = (DOMAIN old) \ {m}
       /\ nodes[n].depth = old[n].depth
       /\ nodes[n].left = old[n].left
       /\ nodes[n].value = old[m].value
       /\ \A x \in SubtreeValues(old, r) : nodes[n].value <= x
       /\ IF m = r
            THEN nodes[n].right = old[m].right
            ELSE /\ nodes[n].right = r
                 /\ nodes[p] = [old[p] EXCEPT !.left = old[m].right]
       /\ \A k \in (DOMAIN nodes) \ {n, p} : nodes[k] = old[k]

\* the minimum lay below the right child of the node that held v
TwoChildDeletePromotesMinimumWitness ==
  /\ LastDeleteHitTwoChildren
  /\ prev.nodes[prev.nodes[Matched].right].left # None
  /\ Matched \in DOMAIN nodes

\* the last call was delete(v) and the node holding v lacked a child
LastDeleteHitAtMostOneChild ==
  /\ last.op = "delete"
  /\ last.value \in TreeValues(prev.nodes)
  /\ prev.nodes[Matched].left = None \/ prev.nodes[Matched].right = None

\* C13: delete(v) on a node without a left child puts its right child
\* (possibly None) in its place, in the parent's link or as root; on a node
\* with a left child and no right child it puts the left child there.  Only
\* that one link changes: the promoted subtree and every other node keep
\* their values, links and stored depths.
OneChildDeleteSplicesChild ==
  LastDeleteHitAtMostOneChild =>
    LET old == prev.nodes
        n == Matched
        c == IF old[n].left = None THEN old[n].right ELSE old[n].left
    IN /\ DOMAIN nodes = (DOMAIN old) \ {n}
       /\ IF n = prev.root
            THEN /\ root = c
                 /\ \A k \in DOMAIN nodes : nodes[k] = old[k]
            ELSE LET p == ParentOf(old, n)
                 IN /\ root = prev.root
                    /\ nodes[p] = IF old[p].left = n
                                    THEN [old[p] EXCEPT !.left = c]
                                    ELSE [old[p] EXCEPT !.right = c]
                    /\ \A k \in (DOMAIN nodes) \ {p} : nodes[k] = old[k]

\* a node below the root with a left child only has just been deleted
OneChildDeleteSplicesChildWitness ==
  /\ LastDeleteHitAtMostOneChild
  /\ Matched # prev.root
  /\ prev.nodes[Matched].left # None
  /\ prev.nodes[Matched].left \in DOMAIN nodes

\* the children of the nodes of a level, left to right
RECURSIVE ChildrenOf(_, _)
ChildrenOf(h, level) ==
  IF level = <<>> THEN <<>>
  ELSE LET n == Head(level)
       IN (IF h[n].left = None THEN <<>> ELSE <<h[n].left>>)
            \o (IF h[n].right = None THEN <<>> ELSE <<h[n].right>>)
            \o ChildrenOf(h, Tail(level))

\* the nodes level by level from the given level down, each level left to
\* right
RECURSIVE BreadthFirst(_, _)
BreadthFirst(h, level) ==
  IF level = <<>> THEN <<>>
  ELSE level \o BreadthFirst(h, ChildrenOf(h, level))

\* C14: as long as no delete has removed a node (in particular when delete
\* was never called), the root's stored depth is 0, every other node's
\* stored depth is its parent's plus one, stored depth is the distance from
\* the root, and level-order traversal is the breadth-first order.
InsertOnlyDepthsAreStructural ==
  (error = "none" /\ numRemoved = 0) =>
    /\ root # None => nodes[root].depth = 0
    /\ \A n \in (DOMAIN nodes) \ {root} :
         nodes[n].depth = nodes[ParentOf(nodes, n)].depth + 1
    /\ \A n \in DOMAIN nodes : nodes[n].depth = PathLen(nodes, root, n)
    /\ _level_order(nodes, root)
         = BreadthFirst(nodes, IF root = None THEN <<>> ELSE <<root>>)

\* four nodes put in by inserts only, in a tree whose breadth-first order
\* is not its pre-order
InsertOnlyDepthsAreStructuralWitness ==
  /\ error = "none"
  /\ numRemoved = 0
  /\ last.op = "insert"
  /\ Cardinality(DOMAIN nodes) >= 4
  /\ _level_order(nodes, root) # _pre_order(nodes, root)

\* before the last call every stored depth was the distance from the root
PrevDepthsStructural ==
  \A k \in DOMAIN prev.nodes :
    prev.nodes[k].depth = PathLen(prev.nodes, prev.root, k)

\* the nodes that were under the right link of the leftmost node of the
\* right subtree of the node the last call matched
PromotedNodes ==
  LET m == Leftmost(prev.nodes, prev.nodes[Matched].right)
  IN Reachable(prev.nodes, prev.nodes[m].right)

\* C15: when every stored depth equals the distance from the root and
\* delete(v) hits a node with both children, afterwards the nodes of the
\* former right subtree of the unlinked minimum node (descendants of the
\* node that held v; none when the minimum node had no right child) have a
\* stored depth one greater than their distance from the root, and every
\* other node's stored depth still equals its distance from the root.
TwoChildDeleteLeavesPromotedDepthsStale ==
  (LastDeleteHitTwoChildren /\ PrevDepthsStructural) =>
    /\ PromotedNodes \subseteq Reachable(nodes, Matched) \ {Matched}
    /\ \A k \in DOMAIN nodes :
         nodes[k].depth
           = PathLen(nodes, root, k) + (IF k \in PromotedNodes THEN 1 ELSE 0)

\* the unlinked minimum node had a right child, which is now stale
TwoChildDeleteLeavesPromotedDepthsStaleWitness ==
  /\ LastDeleteHitTwoChildren
  /\ PrevDepthsStructural
  /\ PromotedNodes # {}
  /\ SomeDepthStale

\* the node whose absent child slot the guided descent from n reaches for
\* the value v: left of a node when v is less than its value, right otherwise
RECURSIVE SlotParent(_, _, _)
SlotParent(h, n, v) ==
  LET next == IF v < h[n].value THEN h[n].left ELSE h[n].right
  IN IF next = None THEN n ELSE SlotParent(h, next, v)

\* C16: insert(v) of a value the tree does not hold adds exactly one node,
\* a leaf holding v, in the absent slot the guided descent reaches; every
\* node that existed keeps its value, stored depth and links, except the one
\* link of the new leaf's parent (the root reference on an empty tree).
InsertAbsentAddsOneLeaf ==
  (last.op = "insert" /\ last.value \notin TreeValues(prev.nodes)) =>
    LET old == prev.nodes
        v == last.value
        added == (DOMAIN nodes) \ (DOMAIN old)
    IN /\ Cardinality(added) = 1
       /\ DOMAIN old \subseteq DOMAIN nodes
       /\ \A new \in added :
            /\ nodes[new].value = v
            /\ nodes[new].left = None
            /\ nodes[new].right = None
            /\ IF prev.root = None
                 THEN root = new
                 ELSE LET p == SlotParent(old, prev.root, v)
                      IN /\ root = prev.root
                         /\ IF v < old[p].value
                              THEN /\ old[p].left = None
                                   /\ nodes[p] = [old[p] EXCEPT !.left = new]
                              ELSE /\ old[p].right = None
                                   /\ nodes[p] = [old[p] EXCEPT !.right = new]
                         /\ \A k \in (DOMAIN old) \ {p} : nodes[k] = old[k]

\* a leaf has just been hung on the left of a node below the root
InsertAbsentAddsOneLeafWitness ==
  /\ last.op = "insert"
  /\ last.value \notin TreeValues(prev.nodes)
  /\ prev.root # None
  /\ LET p == SlotParent(prev.nodes, prev.root, last.value)
     IN p # prev.root /\ last.value < prev.nodes[p].value

\* C17: the constructor called without an initial sequence (the default,
\* None) ends in an error and gives no tree to call; called with the empty
\* sequence it succeeds and the tree has no root.
ConstructorFailsOnNone ==
  /\ iterable.isNone => error = "TypeError" /\ last.op = "new" /\ nops = 0
  /\ ~iterable.isNone => error = "none"
  /\ (~iterable.isNone /\ iterable.items = <<>> /\ last.op = "new") =>
       root = None /\ nodes = <<>>

\* the constructor has just been called without an initial sequence
ConstructorFailsOnNoneWitness ==
  /\ iterable.isNone
  /\ error = "TypeError"
  /\ last.op = "new"

====
